---------------------------- MODULE Spec2Model ----------------------------
(***************************************************************************)
(* The PVPC price endpoints of src/main.py (/now, /today, /forecast,       *)
(* /stats, /cheapest) as a state machine: one request is handled at a      *)
(* time, the handler runs as one action and leaves the HTTP status and     *)
(* the response body in the state, then the response is delivered and the  *)
(* per-request data is discarded (nothing persists across requests).       *)
(*                                                                         *)
(* Numbers.  A price is an integer count of 1e-5 EUR/kWh.  The upstream    *)
(* "price" field is in EUR/MWh with two decimals, i.e. a count r of 0.01   *)
(* EUR/MWh; float(r/100)/1000 is r * 1e-5 EUR/kWh, so the count is kept    *)
(* and its unit changes.  round(x, 4) yields a multiple of 10 counts.      *)
(*                                                                         *)
(* Names the module does not bind.  main.py uses httpx without importing   *)
(* it and calls fetch_esios_pvpc and calculate_stats without defining      *)
(* them.  httpx is modelled by its library contract (the GET either        *)
(* raises or returns the provider's body); fetch_esios_pvpc is modelled    *)
(* from the specification; calculate_stats is taken to be the              *)
(* calculate_statistics that main.py defines.  Everything main.py does     *)
(* define is modelled as written, including the calls of the coroutine     *)
(* function get_today_prices that are not awaited.                         *)
(***************************************************************************)
EXTENDS Integers, Sequences, FiniteSets, TLC

\* Number of hour labels "00-01", "01-02", ... the provider may publish.
NumLabels == 7

\* Number of hour labels in the ESIOS payload read by /now.
NumEsios == 3

\* Number of hour labels in a provider body that holds a malformed entry.
NumDirty == 3

Labels == 0 .. (NumLabels - 1)

DirtyLabels == 0 .. (NumDirty - 1)

EsiosLabels == 0 .. (NumEsios - 1)

\* Upstream prices, counts of 0.01 EUR/MWh.
RawPrices == {12342, 12347}

\* Prices of the well-formed entries that accompany a malformed one.
DirtyPrices == {12342}

\* ESIOS prices, counts of 0.01 EUR/MWh.
EsiosPrices == {12340, 12344, 12352}

\* Values of the zone query parameter that requests carry.
Zones == {"pcb", "CYM", "xx"}

\* Values of the limit query parameter that requests carry.
Limits == {0, 1, 2, 24, 25}

Hours == 0 .. 23

VARIABLES
  pc,        \* "idle": waiting for a request; "done": a response is ready
  endpoint,  \* the route of the request being answered
  zone,      \* its zone parameter, as sent
  limit,     \* its limit parameter (/cheapest), else 0
  nowHour,   \* datetime.now().hour seen by the handler
  upstream,  \* what the price provider serves while the request is handled
  fetched,   \* whether the handler issued an upstream GET
  status,    \* HTTP status of the response
  body       \* the JSON body of a 200 response

vars == <<pc, endpoint, zone, limit, nowHour, upstream, fetched, status, body>>

----------------------------------------------------------------------------
(* Values *)

NoStats == [min |-> 0, max |-> 0, avg |-> 0]

NoLabel == [start |-> 0, end |-> 0]

NoBody ==
  [zone |-> "", hourly_prices |-> <<>>, statistics |-> NoStats,
   total_hours |-> 0, predictions |-> <<>>, hour |-> NoLabel,
   price_kwh |-> 0, is_cheap |-> FALSE, is_lowest |-> FALSE,
   is_highest |-> FALSE, avg_day |-> 0, cheapest_hours |-> <<>>,
   most_expensive_hours |-> <<>>, avg_price_day |-> 0]

\* One entry of the provider's JSON object: the value stored under an hour key.
\*   "price"   a dict whose "price" parses as a number
\*   "badstr"  a dict whose "price" is a string float() rejects (ValueError)
\*   "null"    a dict whose "price" is null (float(None): TypeError)
\*   "nokey"   a dict with no "price" key (info.get("price", 0) gives 0)
\*   "notdict" a value that is not a dict (info.get: AttributeError)
PriceInfo(p) == [kind |-> "price", price |-> p]

BadInfo(k) == [kind |-> k, price |-> 0]

BadKinds == {"badstr", "null", "nokey", "notdict"}

RECURSIVE ItemsUp(_, _)
\* The items of f (a function on 0..n-1 to entries or "absent"), keys ascending.
ItemsUp(f, n) ==
  IF n = 0 THEN <<>>
  ELSE LET rest == ItemsUp(f, n - 1)
       IN IF f[n - 1].kind = "absent" THEN rest
          ELSE Append(rest, [key |-> n - 1, info |-> f[n - 1]])

RECURSIVE Reverse(_)
Reverse(s) == IF s = <<>> THEN <<>> ELSE Append(Reverse(Tail(s)), Head(s))

Absent == [kind |-> "absent", price |-> 0]

\* Bodies with well-formed entries only, any subset of the hours, latest first.
CleanBodies ==
  { Reverse(ItemsUp(f, NumLabels)) :
      f \in [Labels -> {Absent} \cup {PriceInfo(p) : p \in RawPrices}] }

\* Bodies with exactly one malformed entry among well-formed ones, earliest first.
DirtyBodies ==
  { ItemsUp([f EXCEPT ![l] = BadInfo(k)], NumDirty) :
      f \in [DirtyLabels -> {Absent} \cup {PriceInfo(p) : p \in DirtyPrices}],
      l \in DirtyLabels, k \in BadKinds }

\* The key that stands for the provider's "date" / "units" members, which
\* are not hour entries; their values are strings, not dicts.
MetaKey == -1

MetaItem == [key |-> MetaKey, info |-> BadInfo("notdict")]

\* What a GET of the provider ends in: a transport error or non-2xx status
\* ("error"), a JSON array ("array"), or a JSON object with these items.
Upstreams ==
  {[kind |-> "error", items |-> <<>>], [kind |-> "array", items |-> <<>>]}
    \cup {[kind |-> "object", items |-> <<MetaItem>> \o b] : b \in CleanBodies}
    \cup {[kind |-> "object", items |-> b] : b \in DirtyBodies}

EsiosUpstreams ==
  {[kind |-> "error", items |-> <<>>]}
    \cup {[kind |-> "object", items |-> ItemsUp(f, NumEsios)] :
            f \in [EsiosLabels -> {Absent, BadInfo("badstr")}
                                    \cup {PriceInfo(p) : p \in EsiosPrices}]}

----------------------------------------------------------------------------
(* Arithmetic *)

RECURSIVE Sum(_)
Sum(s) == IF s = <<>> THEN 0 ELSE Head(s) + Sum(Tail(s))

RECURSIVE MinOf(_)
MinOf(s) ==
  IF Len(s) = 1 THEN s[1]
  ELSE LET m == MinOf(Tail(s)) IN IF s[1] <= m THEN s[1] ELSE m

RECURSIVE MaxOf(_)
MaxOf(s) ==
  IF Len(s) = 1 THEN s[1]
  ELSE LET m == MaxOf(Tail(s)) IN IF s[1] >= m THEN s[1] ELSE m

\* round(num/den, 4) for num/den >= 0 in counts of 1e-5: the nearest multiple
\* of 10.  Exactly half way the float that stands for the decimal lies on one
\* side or the other, so both neighbours are possible results.
Round4(num, den) ==
  LET lo == 10 * (num \div (10 * den))
      r2 == 2 * (num - lo * den)
  IN IF r2 < 10 * den THEN {lo}
     ELSE IF r2 > 10 * den THEN {lo + 10}
     ELSE {lo, lo + 10}

----------------------------------------------------------------------------
(* calculate_statistics, main.py 36-44 *)

RECURSIVE PricesOf(_)
\* [h["price"] for h in hourly_prices]
PricesOf(hs) ==
  IF hs = <<>> THEN <<>> ELSE <<Head(hs).price>> \o PricesOf(Tail(hs))

\* The possible results of calculate_statistics(prices).
calculate_statistics(prices) ==
  IF prices = <<>> THEN {NoStats}
  ELSE {[min |-> mn, max |-> mx, avg |-> av] :
          mn \in Round4(MinOf(prices), 1),
          mx \in Round4(MaxOf(prices), 1),
          av \in Round4(Sum(prices), Len(prices))}

----------------------------------------------------------------------------
(* get_today_prices, main.py 95-131 *)

\* a < b for two hour keys as the strings "00-01", "01-02", ...: compared
\* character by character, tens digit first.
HourKeyLess(a, b) ==
  \/ a \div 10 < b \div 10
  \/ a \div 10 = b \div 10 /\ a % 10 < b % 10

RECURSIVE InsertByHour(_, _)
\* x put into the sorted list s after every element not greater than it.
InsertByHour(x, s) ==
  IF s = <<>> THEN <<x>>
  ELSE IF HourKeyLess(x.hour, s[1].hour) THEN <<x>> \o s
  ELSE <<s[1]>> \o InsertByHour(x, Tail(s))

RECURSIVE SortFrom(_, _)
SortFrom(s, acc) ==
  IF s = <<>> THEN acc ELSE SortFrom(Tail(s), InsertByHour(Head(s), acc))

\* sorted(hourly_prices, key=lambda x: x["hour"])
sorted_by_hour(s) == SortFrom(s, <<>>)

\* if hour not in ["date", "units"]
is_hour_key(k) == k # MetaKey

RECURSIVE extract_hourly(_)
\* The loop of lines 106-117 over data.items(): the list built, and whether an
\* exception other than ValueError / TypeError left the loop.
extract_hourly(items) ==
  IF items = <<>> THEN [raised |-> FALSE, list |-> <<>>]
  ELSE LET it   == Head(items)
           rest == extract_hourly(Tail(items))
       IN IF ~is_hour_key(it.key) THEN rest
          ELSE IF it.info.kind = "notdict" THEN [raised |-> TRUE, list |-> <<>>]
          ELSE IF it.info.kind \in {"badstr", "null"} THEN rest
          ELSE IF rest.raised THEN rest
          ELSE [raised |-> FALSE,
                list |-> <<[hour |-> it.key,
                            price |-> IF it.info.kind = "nokey" THEN 0
                                      ELSE it.info.price]>> \o rest.list]

\* The possible results of running the coroutine get_today_prices(z) while the
\* provider serves up: the status, and the dict returned when it is 200.
\* Every exception inside the try ends in HTTPException(503).
today_prices(z, up) ==
  IF up.kind # "object" THEN {[status |-> 503, data |-> NoBody]}
  ELSE LET ex == extract_hourly(up.items)
       IN IF ex.raised THEN {[status |-> 503, data |-> NoBody]}
          ELSE {[status |-> 200,
                 data |-> [NoBody EXCEPT
                             !.zone = z,
                             !.hourly_prices = sorted_by_hour(ex.list),
                             !.statistics = st,
                             !.total_hours = Len(ex.list)]] :
                  st \in calculate_statistics(PricesOf(ex.list))}

----------------------------------------------------------------------------
(* get_forecast, main.py 133-163 *)

\* prices[:6] in place of prices[-6:]
first_six(prices) ==
  IF Len(prices) <= 6 THEN prices ELSE SubSeq(prices, 1, 6)

\* prices[-6:]
last_six(prices) ==
  IF Len(prices) <= 6 THEN prices ELSE SubSeq(prices, Len(prices) - 5, Len(prices))

\* The prices line 142-145 averages.
recent_prices(prices) == IF Len(prices) >= 6 THEN last_six(prices) ELSE prices

\* The hour label of line 151: f"{forecast_hour:02d}:00-{forecast_hour+1:02d}:00"
forecast_label(forecast_hour) == [start |-> forecast_hour, end |-> forecast_hour + 1]

\* The list built by lines 147-155.
forecast_list(current_hour, recent_avg) ==
  [i \in 1 .. 6 |->
     [hour |-> forecast_label((current_hour + i) % 24),
      predicted_price |-> recent_avg]]

\* The possible responses of get_forecast(z) at hour h while the provider
\* serves up.  The 503 of the awaited get_today_prices passes through;
\* mean([]) raises StatisticsError, which nothing catches (500).
forecast_response(z, h, up) ==
  UNION { IF t.status # 200 THEN {[status |-> t.status, body |-> NoBody]}
          ELSE LET prices == PricesOf(t.data.hourly_prices)
                   recent == recent_prices(prices)
               IN IF recent = <<>> THEN {[status |-> 500, body |-> NoBody]}
                  ELSE {[status |-> 200,
                         body |-> [NoBody EXCEPT
                                     !.zone = z,
                                     !.predictions = forecast_list(h, avg)]] :
                          avg \in Round4(Sum(recent), Len(recent))}
        : t \in today_prices(z, up) }

----------------------------------------------------------------------------
(* get_statistics, main.py 165-183, and get_cheapest_hours, main.py 185-199 *)

\* a["price"] < b["price"]
PriceLess(a, b) == a.price < b.price

RECURSIVE InsertByPrice(_, _)
InsertByPrice(x, s) ==
  IF s = <<>> THEN <<x>>
  ELSE IF PriceLess(x, s[1]) THEN <<x>> \o s
  ELSE <<s[1]>> \o InsertByPrice(x, Tail(s))

RECURSIVE SortPriceFrom(_, _)
SortPriceFrom(s, acc) ==
  IF s = <<>> THEN acc ELSE SortPriceFrom(Tail(s), InsertByPrice(Head(s), acc))

\* sorted(hourly, key=lambda x: x["price"]): stable, ascending
sorted_by_price(s) == SortPriceFrom(s, <<>>)

\* s[:n]
first_n(s, n) == IF Len(s) <= n THEN s ELSE SubSeq(s, 1, n)

\* s[-5:][::-1]
last_five_reversed(s) ==
  Reverse(IF Len(s) <= 5 THEN s ELSE SubSeq(s, Len(s) - 4, Len(s)))

\* What get_today_prices(zone) evaluates to in a function that is not a
\* coroutine and does not await it (lines 168 and 191): the coroutine object.
\* Its body never runs, so no GET is issued.
unawaited_today_prices(z) == [kind |-> "coroutine", status |-> 0, data |-> NoBody]

\* The response of get_statistics given the value of today_data.
\* Subscripting a coroutine object raises TypeError, which nothing catches.
statistics_response(today_data) ==
  IF today_data.kind = "coroutine" THEN [status |-> 500, body |-> NoBody]
  ELSE LET sorted_hours == sorted_by_price(today_data.data.hourly_prices)
       IN [status |-> 200,
           body |-> [NoBody EXCEPT
                       !.zone = today_data.data.zone,
                       !.statistics = today_data.data.statistics,
                       !.cheapest_hours = first_n(sorted_hours, 5),
                       !.most_expensive_hours = last_five_reversed(sorted_hours)]]

\* if limit < 1 or limit > 24
limit_rejected(n) == n < 1 \/ n > 24

\* The response of get_cheapest_hours past the limit check.
cheapest_response(today_data, n) ==
  IF today_data.kind = "coroutine" THEN [status |-> 500, body |-> NoBody]
  ELSE LET sorted_hours == sorted_by_price(today_data.data.hourly_prices)
       IN [status |-> 200,
           body |-> [NoBody EXCEPT
                       !.zone = today_data.data.zone,
                       !.cheapest_hours = first_n(sorted_hours, n),
                       !.avg_price_day = today_data.data.statistics.avg]]

----------------------------------------------------------------------------
(* fetch_esios_pvpc: called by get_current_price, defined nowhere in src/. *)
(* Modelled from the specification's Price Normalizer.                     *)

\* zone.lower() for the zone values requests carry.
Lower(z) ==
  CASE z = "pcb" -> "pcb" [] z = "PCB" -> "pcb" [] z = "cm" -> "cm" [] z = "CM" -> "cm"
    [] z = "cym" -> "cym" [] z = "CYM" -> "cym" [] OTHER -> z

ZoneValid(z) == Lower(z) \in {"pcb", "cm", "cym"}

ZoneTag(z) == IF Lower(z) = "pcb" THEN "PCB" ELSE "CM"

\* Range label "01-02" is hour index 0: the start of the range less one.  An
\* item whose price does not parse, or whose label gives no hour of the day,
\* is skipped.
EsiosHours(items) ==
  {items[i].key - 1 : i \in {j \in DOMAIN items :
                               items[j].info.kind = "price" /\ items[j].key >= 1}}

EsiosSeries(items) ==
  [h \in EsiosHours(items) |->
     items[CHOOSE i \in DOMAIN items : items[i].key = h + 1].info.price]

\* InvalidZone (400, no fetch), UpstreamUnreachable (503), NoDataAvailable
\* (503), or the series with the canonical zone tag.
fetch_esios_pvpc(z, up) ==
  IF ~ZoneValid(z) THEN [status |-> 400, fetched |-> FALSE, zone |-> "", hourly |-> <<>>]
  ELSE IF up.kind # "object"
    THEN [status |-> 503, fetched |-> TRUE, zone |-> "", hourly |-> <<>>]
  ELSE IF EsiosHours(up.items) = {}
    THEN [status |-> 503, fetched |-> TRUE, zone |-> "", hourly |-> <<>>]
  ELSE [status |-> 200, fetched |-> TRUE, zone |-> ZoneTag(z),
        hourly |-> EsiosSeries(up.items)]

----------------------------------------------------------------------------
(* get_current_price, main.py 65-93 *)

\* a truthiness test of the hour in place of the membership test
hour_in_series_nonzero(h, hourly) == h # 0 /\ h \in DOMAIN hourly

\* current_hour in hourly
hour_in_series(h, hourly) == h \in DOMAIN hourly

RECURSIVE ValuesOf(_, _)
\* list(hourly.values())
ValuesOf(hourly, hs) ==
  IF hs = {} THEN <<>>
  ELSE LET h == CHOOSE x \in hs : \A y \in hs : x <= y
       IN <<hourly[h]>> \o ValuesOf(hourly, hs \ {h})

\* The hour label of line 85: f"{h:02d}:00-{(h+1)%24:02d}:00"
now_label(h) == [start |-> h, end |-> (h + 1) % 24]

\* The possible responses of get_current_price at hour h given the result
\* of fetch_esios_pvpc.
current_price_response(h, data) ==
  IF data.status # 200 THEN {[status |-> data.status, body |-> NoBody]}
  ELSE IF ~hour_in_series(h, data.hourly) THEN {[status |-> 404, body |-> NoBody]}
  ELSE LET current_price == data.hourly[h]
           prices == ValuesOf(data.hourly, DOMAIN data.hourly)
       IN {[status |-> 200,
            body |-> [NoBody EXCEPT
                        !.zone = data.zone,
                        !.hour = now_label(h),
                        !.price_kwh = current_price,
                        !.is_cheap = (current_price <= stats.avg),
                        !.is_lowest = (current_price = stats.min),
                        !.is_highest = (current_price = stats.max),
                        !.avg_day = stats.avg]] :
             stats \in calculate_statistics(prices)}

----------------------------------------------------------------------------
(* The requests *)

Init ==
  /\ pc = "idle"
  /\ endpoint = "none"
  /\ zone = ""
  /\ limit = 0
  /\ nowHour = 0
  /\ upstream = [kind |-> "error", items |-> <<>>]
  /\ fetched = FALSE
  /\ status = 0
  /\ body = NoBody

\* GET /now
get_current_price ==
  /\ pc = "idle"
  /\ \E z \in Zones, h \in Hours, up \in EsiosUpstreams :
       LET data == fetch_esios_pvpc(z, up)
       IN \E r \in current_price_response(h, data) :
            /\ zone' = z
            /\ nowHour' = h
            /\ upstream' = up
            /\ fetched' = data.fetched
            /\ status' = r.status
            /\ body' = r.body
  /\ endpoint' = "now"
  /\ limit' = 0
  /\ pc' = "done"

\* GET /today
get_today_prices ==
  /\ pc = "idle"
  /\ \E z \in Zones, up \in Upstreams :
       \E t \in today_prices(z, up) :
         /\ zone' = z
         /\ upstream' = up
         /\ status' = t.status
         /\ body' = t.data
  /\ fetched' = TRUE
  /\ endpoint' = "today"
  /\ limit' = 0
  /\ nowHour' = 0
  /\ pc' = "done"

\* GET /forecast
get_forecast ==
  /\ pc = "idle"
  /\ \E z \in Zones, h \in Hours, up \in Upstreams :
       \E r \in forecast_response(z, h, up) :
         /\ zone' = z
         /\ nowHour' = h
         /\ upstream' = up
         /\ status' = r.status
         /\ body' = r.body
  /\ fetched' = TRUE
  /\ endpoint' = "forecast"
  /\ limit' = 0
  /\ pc' = "done"

\* GET /stats
get_statistics ==
  /\ pc = "idle"
  /\ \E z \in Zones, up \in Upstreams :
       LET r == statistics_response(unawaited_today_prices(z))
       IN /\ zone' = z
          /\ upstream' = up
          /\ status' = r.status
          /\ body' = r.body
  /\ fetched' = FALSE
  /\ endpoint' = "stats"
  /\ limit' = 0
  /\ nowHour' = 0
  /\ pc' = "done"

\* GET /cheapest
get_cheapest_hours ==
  /\ pc = "idle"
  /\ \E z \in Zones, n \in Limits, up \in Upstreams :
       LET r == IF limit_rejected(n) THEN [status |-> 400, body |-> NoBody]
                ELSE cheapest_response(unawaited_today_prices(z), n)
       IN /\ zone' = z
          /\ limit' = n
          /\ upstream' = up
          /\ status' = r.status
          /\ body' = r.body
  /\ fetched' = FALSE
  /\ endpoint' = "cheapest"
  /\ nowHour' = 0
  /\ pc' = "done"

\* The response is sent; nothing of the request is kept.
Deliver ==
  /\ pc = "done"
  /\ pc' = "idle"
  /\ endpoint' = "none"
  /\ zone' = ""
  /\ limit' = 0
  /\ nowHour' = 0
  /\ upstream' = [kind |-> "error", items |-> <<>>]
  /\ fetched' = FALSE
  /\ status' = 0
  /\ body' = NoBody

Next ==
  \/ get_current_price
  \/ get_today_prices
  \/ get_forecast
  \/ get_statistics
  \/ get_cheapest_hours
  \/ Deliver

Spec == Init /\ [][Next]_vars

----------------------------------------------------------------------------
(* The ranking expressions of get_statistics (lines 170-183) and           *)
(* get_cheapest_hours (lines 192-199) as functions of the dict that        *)
(* get_today_prices returns: RankSpec applies them to every such dict.     *)

awaited_today_prices(t) == [kind |-> "dict", status |-> t.status, data |-> t.data]

rank_statistics ==
  /\ pc = "idle"
  /\ \E z \in Zones, up \in Upstreams :
       \E t \in today_prices(z, up) :
         /\ t.status = 200
         /\ LET r == statistics_response(awaited_today_prices(t))
            IN /\ zone' = z
               /\ upstream' = up
               /\ status' = r.status
               /\ body' = r.body
  /\ fetched' = TRUE
  /\ endpoint' = "stats"
  /\ limit' = 0
  /\ nowHour' = 0
  /\ pc' = "done"

rank_cheapest ==
  /\ pc = "idle"
  /\ \E z \in Zones, n \in Limits, up \in Upstreams :
       \E t \in today_prices(z, up) :
         /\ t.status = 200
         /\ ~limit_rejected(n)
         /\ LET r == cheapest_response(awaited_today_prices(t), n)
            IN /\ zone' = z
               /\ limit' = n
               /\ upstream' = up
               /\ status' = r.status
               /\ body' = r.body
  /\ fetched' = TRUE
  /\ endpoint' = "cheapest"
  /\ nowHour' = 0
  /\ pc' = "done"

RankNext ==
  \/ rank_statistics
  \/ rank_cheapest
  \/ Deliver

RankSpec == Init /\ [][RankNext]_vars

----------------------------------------------------------------------------
(* What the properties below speak of *)

Done(e) == pc = "done" /\ endpoint = e

\* The well-formed hour entries of the provider's body, as (hour, price).
UsableEntries ==
  {[hour |-> upstream.items[i].key, price |-> upstream.items[i].info.price] :
     i \in {j \in DOMAIN upstream.items :
              /\ upstream.items[j].key # MetaKey
              /\ upstream.items[j].info.kind = "price"}}

\* The malformed hour entries of the provider's body.
MalformedEntries ==
  {i \in DOMAIN upstream.items :
     /\ upstream.items[i].key # MetaKey
     /\ upstream.items[i].info.kind \in BadKinds}

\* The provider answered with a body whose hour entries are all well-formed.
CleanFetch == upstream.kind = "object" /\ MalformedEntries = {}

\* The series the handler worked on: the entries its normalisation kept.
SeriesSet ==
  LET ex == extract_hourly(upstream.items)
  IN IF upstream.kind # "object" \/ ex.raised THEN {}
     ELSE {ex.list[i] : i \in DOMAIN ex.list}

RECURSIVE SumPrices(_)
SumPrices(S) ==
  IF S = {} THEN 0
  ELSE LET e == CHOOSE x \in S : TRUE IN e.price + SumPrices(S \ {e})

\* The entries of S with fewer than 6 later hours: the last 6 by hour index
\* when S has at least 6 entries, else all of S.
Window(S) == {e \in S : Cardinality({f \in S : f.hour > e.hour}) < 6}

\* p is num/den rounded to 4 decimals: a multiple of 10 counts nearest to it.
IsRounded4(p, num, den) ==
  /\ p % 10 = 0
  /\ p * den - num <= 5 * den
  /\ num - p * den <= 5 * den

\* a ranks before b: by price (descending when dearest, else ascending), and
\* among equal prices by ascending hour.
RanksBefore(a, b, dearest) ==
  \/ IF dearest THEN a.price > b.price ELSE a.price < b.price
  \/ a.price = b.price /\ a.hour < b.hour

\* The list is the first min(k, |S|) entries of S in ranking order.
RankedFirst(list, S, k, dearest) ==
  /\ Len(list) = (IF Cardinality(S) < k THEN Cardinality(S) ELSE k)
  /\ \A i \in DOMAIN list : [hour |-> list[i].hour, price |-> list[i].price] \in S
  /\ \A i, j \in DOMAIN list : i < j => RanksBefore(list[i], list[j], dearest)
  /\ \A e \in S : \/ \E i \in DOMAIN list : list[i].hour = e.hour
                  \/ \A i \in DOMAIN list : RanksBefore(list[i], e, dearest)

----------------------------------------------------------------------------
(* The claims *)

\* C1: whenever the upstream fetch succeeds but yields zero usable hourly
\* entries, the request (/now, /today, /stats, /cheapest, /forecast) ends in
\* 503, never in a success body, zero-filled statistics or another status.
C1_EmptySeriesIs503 ==
  ( /\ pc = "done"
    /\ fetched
    /\ upstream.kind = "object"
    /\ IF endpoint = "now" THEN EsiosHours(upstream.items) = {}
       ELSE UsableEntries = {} )
  => status = 503

\* C2: /cheapest rejects every limit outside 1..24 with 400 before any fetch,
\* lets every limit in 1..24 pass, and with limit = 24 and a fetched series of
\* n <= 24 hours answers with all n hours.
C2_LimitValidation ==
  Done("cheapest") =>
    /\ limit \notin 1 .. 24 => (status = 400 /\ ~fetched)
    /\ (limit \in 1 .. 24 /\ ZoneValid(zone)) => status # 400
    /\ (limit = 24 /\ ZoneValid(zone) /\ CleanFetch /\ UsableEntries # {}) =>
         /\ status = 200
         /\ Len(body.cheapest_hours) = Cardinality(UsableEntries)

\* C3: on every endpoint a zone other than pcb, cm, cym (in any case) is
\* rejected with 400 and no fetch is attempted; an accepted zone is echoed as
\* its canonical tag PCB or CM.
C3_ZoneValidation ==
  pc = "done" =>
    /\ ~ZoneValid(zone) => (status = 400 /\ ~fetched)
    /\ (ZoneValid(zone) /\ status = 200) => body.zone = ZoneTag(zone)

\* C4: the most-expensive list of /stats holds the min(5, n) highest-priced
\* hours of the series, price descending, equal prices in ascending hour order.
C4_MostExpensiveOrder ==
  (Done("stats") /\ status = 200) =>
    RankedFirst(body.most_expensive_hours, SeriesSet, 5, TRUE)

\* C5: on /now, for a series holding the current hour, is_lowest is true
\* exactly when the hour's price is the minimum of the series, is_highest
\* exactly when it is the maximum, is_cheap exactly when it is <= the mean.
C5_NowFlagsExact ==
  (Done("now") /\ status = 200) =>
    LET s == EsiosSeries(upstream.items)
        p == s[nowHour]
        total == Sum(ValuesOf(s, DOMAIN s))
    IN /\ body.is_lowest = (\A h \in DOMAIN s : p <= s[h])
       /\ body.is_highest = (\A h \in DOMAIN s : p >= s[h])
       /\ body.is_cheap = (p * Cardinality(DOMAIN s) <= total)

\* C6: a single malformed upstream entry is skipped: /today still succeeds and
\* returns exactly the well-formed entries of the payload.
C6_BadRowSkipped ==
  ( /\ Done("today")
    /\ upstream.kind = "object"
    /\ Cardinality(MalformedEntries) = 1 )
  => /\ status = 200
     /\ {[hour |-> body.hourly_prices[i].hour, price |-> body.hourly_prices[i].price] :
           i \in DOMAIN body.hourly_prices} = UsableEntries

\* C7: for a valid limit, /cheapest returns the first min(limit, n) hours of
\* the series by price ascending, equal prices in ascending hour order.
C7_CheapestRanked ==
  ( /\ Done("cheapest")
    /\ limit \in 1 .. 24
    /\ ZoneValid(zone)
    /\ CleanFetch
    /\ UsableEntries # {} )
  => /\ status = 200
     /\ RankedFirst(body.cheapest_hours, UsableEntries, limit, FALSE)

\* The ranking expression of lines 192-197 by itself (RankSpec): applied to a
\* dict of get_today_prices it yields the first min(limit, n) hours by price
\* ascending, equal prices in ascending hour order.
RankedCheapestExpression ==
  (Done("cheapest") /\ status = 200) =>
    RankedFirst(body.cheapest_hours, SeriesSet, limit, FALSE)

\* C8 as stated: for every non-empty series /forecast returns exactly 6
\* predictions with one price, the mean of the last 6 prices by hour index
\* (of all prices when there are fewer than 6).
C8_ForecastWindowMean ==
  (Done("forecast") /\ SeriesSet # {}) =>
    LET W == Window(SeriesSet)
        total == SumPrices(W)
        count == Cardinality(W)
    IN /\ status = 200
       /\ Len(body.predictions) = 6
       /\ \A i \in 1 .. 6 :
            /\ body.predictions[i].predicted_price = body.predictions[1].predicted_price
            /\ body.predictions[i].predicted_price * count = total

\* C8 amended: for every non-empty series /forecast returns exactly 6
\* predictions with one price, the mean of the last 6 prices by hour index (of
\* all prices when there are fewer than 6) rounded to 4 decimal places.
C8_ForecastRoundedWindowMean ==
  (Done("forecast") /\ SeriesSet # {}) =>
    LET W == Window(SeriesSet)
        total == SumPrices(W)
        count == Cardinality(W)
    IN /\ status = 200
       /\ Len(body.predictions) = 6
       /\ \A i \in 1 .. 6 :
            /\ body.predictions[i].predicted_price = body.predictions[1].predicted_price
            /\ IsRounded4(body.predictions[i].predicted_price, total, count)

\* A forecast over more than 6 hours whose price is not the rounded mean of
\* the whole series: the window of the last 6 decided it.
C8_Witness ==
  /\ Done("forecast")
  /\ status = 200
  /\ Cardinality(SeriesSet) > 6
  /\ ~IsRounded4(body.predictions[1].predicted_price,
                 SumPrices(SeriesSet), Cardinality(SeriesSet))

C10_ForecastLabelsWrap ==
  (Done("forecast") /\ status = 200) =>
    \A i \in 1 .. 6 :
      LET l == body.predictions[i].hour
      IN /\ l.start = (nowHour + i) % 24
         /\ l.start \in 0 .. 23
         /\ l.end \in 0 .. 23
         /\ l.end = (l.start + 1) % 24

=============================================================================
